---- MODULE Spec2Model ----
(***************************************************************************)
(* A model of gdata/base/service.py: the GBaseService facade over the      *)
(* generic GData client (API key header, Query / Insert / Update / Delete  *)
(* wrappers with an optional response converter) and the BaseQuery         *)
(* parameter object.                                                       *)
(*                                                                         *)
(* Strings that the code takes apart (item ids, request paths) are         *)
(* sequences of one-character strings.  Header values, API keys and query  *)
(* values are small naturals, with None the Python null.                   *)
(***************************************************************************)
EXTENDS Naturals, Sequences, FiniteSets

\* ------------------------------------------------------------- bounds
\* Longest remainder of an item id after the host prefix.
MaxRem == 2
\* Number of distinct non-null API key / header values.
NumKeys == 2
\* Number of distinct non-null query parameter values.
NumVals == 2

\* ------------------------------------------------------------- values
\* Python's None, as a header / key / parameter value.
None == 0

KeyValues == 0..NumKeys

\* The header name used by the API key accessor.
API_KEY_HEADER == "X-Google-Key"

\* Header names a caller may pass in additional_headers.
HeaderNames == {"X-Google-Key", "User-Agent"}

\* The literal 'http://www.google.com/' of DeleteItem.
HOST_PREFIX ==
  <<"h","t","t","p",":","/","/","w","w","w",".","g","o","o","g","l","e",
    ".","c","o","m","/">>

\* The literal '/base/feeds/items' of InsertItem.
ITEMS_PATH ==
  <<"/","b","a","s","e","/","f","e","e","d","s","/","i","t","e","m","s">>

\* Characters the remainder of an item id is built from.
RemAlphabet == {"b", "p"}

RECURSIVE SeqsUpTo(_)
SeqsUpTo(n) ==
  IF n = 0 THEN {<<>>}
  ELSE LET shorter == SeqsUpTo(n - 1)
       IN  shorter \cup {Append(s, c) : s \in shorter, c \in RemAlphabet}

Remainders == SeqsUpTo(MaxRem)

\* Item ids a caller may pass: with the host prefix, and without it.
ItemIds == {HOST_PREFIX \o r : r \in Remainders} \cup Remainders

\* URIs a caller may pass to the query operations.
QueryUris == {<<"/", "b">>, HOST_PREFIX \o <<"b">>}

\* ------------------------------------------------------------- dictionaries
\* additional_headers is either None (dict = FALSE) or a Python dict.
EmptyItems == [x \in {} |-> None]

NoneHeaders == [dict |-> FALSE, items |-> EmptyItems]

DictOf(f) == [dict |-> TRUE, items |-> f]

\* d[k] = v on a Python dict.
DictSet(f, k, v) == [x \in (DOMAIN f) \cup {k} |-> IF x = k THEN v ELSE f[x]]

AllDicts(names, values) ==
  UNION {[dom -> values] : dom \in SUBSET names}

\* Header mappings a caller may assign to the handle.
CallerHeaders ==
  {NoneHeaders} \cup {DictOf(f) : f \in AllDicts(HeaderNames, KeyValues)}

\* additional_headers arguments a handle is constructed with: none, an empty
\* dict, a dict with another header, a dict that already holds a key.
CtorHeaders ==
  {NoneHeaders, DictOf(EmptyItems),
   DictOf(DictSet(EmptyItems, "User-Agent", 1)),
   DictOf(DictSet(EmptyItems, "X-Google-Key", 1))}

\* ------------------------------------------------------------- API key
\* GDataService.__init__ keeps the additional_headers argument on the handle.
GDataServiceInit(additional_headers_arg) == additional_headers_arg

\* _SetAPIKey without the isinstance test: storing into None fails and the
\* handle keeps no dict.
SetAPIKey_noDictCheck(h, api_key) ==
  IF ~h.dict THEN h
  ELSE DictOf(DictSet(h.items, API_KEY_HEADER, api_key))

\* _SetAPIKey: a handle whose additional_headers is not a dict gets a fresh
\* one, then the key is stored under 'X-Google-Key'.
SetAPIKey(h, api_key) ==
  LET d == IF ~h.dict THEN DictOf(EmptyItems) ELSE h
  IN  DictOf(DictSet(d.items, API_KEY_HEADER, api_key))

\* _GetAPIKey reading another header name than the setter writes.
GetAPIKey_otherHeader(h) ==
  IF ~h.dict THEN [raised |-> "TypeError", value |-> None]
  ELSE IF "X-Google-key" \notin DOMAIN h.items
       THEN [raised |-> "none", value |-> None]
       ELSE [raised |-> "none", value |-> h.items["X-Google-key"]]

\* _GetAPIKey: None when the header is absent, else the stored value.  The
\* membership test on a non-dict (None) raises TypeError.
GetAPIKey(h) ==
  IF ~h.dict THEN [raised |-> "TypeError", value |-> None]
  ELSE IF API_KEY_HEADER \notin DOMAIN h.items
       THEN [raised |-> "none", value |-> None]
       ELSE [raised |-> "none", value |-> h.items[API_KEY_HEADER]]

\* GBaseService.__init__: the base constructor, then self.api_key = api_key.
GBaseServiceInit(additional_headers_arg, api_key) ==
  SetAPIKey(GDataServiceInit(additional_headers_arg), api_key)

\* ------------------------------------------------------------- documents
\* What the server may answer: a feed, an entry, or something else.
Shapes == {"feed", "entry", "other"}

\* Failures the transport or its parser may raise.
Failures == {"gdata.service.RequestError", "ExpatError"}

\* The two exception classes this module declares.
OwnErrors == {"gdata.base.service.Error", "gdata.base.service.RequestError"}

Replies ==
  {[fail |-> "none", shape |-> s] : s \in Shapes}
    \cup {[fail |-> f, shape |-> "other"] : f \in Failures}

\* Objects handed back to the caller: a class name and the document it wraps.
Obj(type, shape) == [type |-> type, doc |-> shape]

NoValue == Obj("NoneType", "none")

\* The class each parser function of gdata.base builds.
ConvType ==
  [GBaseSnippetFeedFromString    |-> "GBaseSnippetFeed",
   GBaseItemFeedFromString       |-> "GBaseItemFeed",
   GBaseAttributesFeedFromString |-> "GBaseAttributesFeed",
   GBaseItemTypesFeedFromString  |-> "GBaseItemTypesFeed",
   GBaseLocalesFeedFromString    |-> "GBaseLocalesFeed",
   GBaseItemFromString           |-> "GBaseItem",
   GBaseSnippetFromString        |-> "GBaseSnippet",
   GBaseAttributeEntryFromString |-> "GBaseAttributeEntry",
   GBaseItemTypeEntryFromString  |-> "GBaseItemTypeEntry",
   GDataEntryFromString          |-> "GDataEntry"]

NoConverter == "None"

\* Converters a caller may pass to Query, InsertItem and UpdateItem.
CallerConverters == {"GBaseItemFromString", "GDataEntryFromString"}

\* Applying a parser function to the text of a response.
Convert(converter, shape) == Obj(ConvType[converter], shape)

\* isinstance(x, atom.Entry): the entry classes all derive from atom.Entry.
IsAtomEntry(x) ==
  x.type \in {"GDataEntry", "GBaseItem", "GBaseSnippet",
              "GBaseAttributeEntry", "GBaseItemTypeEntry"}

\* entry.ToString(): the serialized form of the wrapped document.
ToString(x) == x.doc

GBaseItemFromString(xml) == Convert("GBaseItemFromString", xml)

\* What the client hands back when no converter is given: a feed object, an
\* entry object, or the response text.
DefaultParse(shape) ==
  IF shape = "feed" THEN Obj("GDataFeed", shape)
  ELSE IF shape = "entry" THEN Obj("GDataEntry", shape)
  ELSE Obj("str", shape)

\* ------------------------------------------------------------- client
\* One call of the inherited client: the request it sends with the handle's
\* headers, and what comes back (a value, or a raised failure).
ClientCall(method, h, uri, converter, r) ==
  [request |-> [method |-> method, uri |-> uri, headers |-> h,
                converter |-> converter],
   raised  |-> r.fail,
   value   |-> IF r.fail # "none" THEN NoValue
               ELSE IF method = "DELETE" THEN Obj("bool", "True")
               ELSE IF converter # NoConverter THEN Convert(converter, r.shape)
               ELSE DefaultParse(r.shape)]

Get(h, uri, converter, r) == ClientCall("GET", h, uri, converter, r)

Post(h, uri, converter, r) == ClientCall("POST", h, uri, converter, r)

Put(h, uri, converter, r) == ClientCall("PUT", h, uri, converter, r)

Delete(h, uri, r) == ClientCall("DELETE", h, uri, NoConverter, r)

\* ------------------------------------------------------------- facade
\* The effect of one facade operation: the client calls it made, how it
\* ended, how many times it ran the item parser itself, and the header
\* mapping it leaves on the handle.
Returned(h, calls, value, parses) ==
  [requests |-> calls, raised |-> "none", value |-> value,
   parses |-> parses, headers |-> h]

\* No try/except anywhere in the module: a failure raised by a client call
\* leaves the operation at once.
Propagated(h, calls, failure) ==
  [requests |-> calls, raised |-> failure, value |-> NoValue,
   parses |-> 0, headers |-> h]

\* Query without the "if converter" test: any entry result is re-parsed.
Query_reparseAlways(h, uri, converter, r) ==
  LET result == Get(h, uri, converter, r)
  IN  IF result.raised # "none"
        THEN Propagated(h, <<result.request>>, result.raised)
      ELSE IF IsAtomEntry(result.value)
        THEN Returned(h, <<result.request>>,
                      GBaseItemFromString(ToString(result.value)), 1)
      ELSE Returned(h, <<result.request>>, result.value, 0)

\* Query: GET; with a converter the client's result is returned as is;
\* without one an atom.Entry result is re-parsed as a GBaseItem.
Query(h, uri, converter, r) ==
  LET result == Get(h, uri, converter, r)
  IN  IF result.raised # "none"
        THEN Propagated(h, <<result.request>>, result.raised)
      ELSE IF converter # NoConverter
        THEN Returned(h, <<result.request>>, result.value, 0)
      ELSE IF IsAtomEntry(result.value)
        THEN Returned(h, <<result.request>>,
                      GBaseItemFromString(ToString(result.value)), 1)
      ELSE Returned(h, <<result.request>>, result.value, 0)

\* The converter each fixed-converter GET wrapper passes to Get.
FixedConverter ==
  [QuerySnippetsFeed   |-> "GBaseSnippetFeedFromString",
   QueryItemsFeed      |-> "GBaseItemFeedFromString",
   QueryAttributesFeed |-> "GBaseAttributesFeedFromString",
   QueryItemTypesFeed  |-> "GBaseItemTypesFeedFromString",
   QueryLocalesFeed    |-> "GBaseLocalesFeedFromString",
   GetItem             |-> "GBaseItemFromString",
   GetSnippet          |-> "GBaseSnippetFromString",
   GetAttribute        |-> "GBaseAttributeEntryFromString",
   GetItemType         |-> "GBaseItemTypeEntryFromString",
   GetLocale           |-> "GDataEntryFromString"]

FixedOps == DOMAIN FixedConverter

\* QuerySnippetsFeed .. GetLocale: return self.Get(uri, converter=...).
FixedGet(name, h, uri, r) ==
  LET result == Get(h, uri, FixedConverter[name], r)
  IN  IF result.raised # "none"
        THEN Propagated(h, <<result.request>>, result.raised)
      ELSE Returned(h, <<result.request>>, result.value, 0)

\* InsertItem with the re-parse left out.
InsertItem_noReparse(h, converter, r) ==
  LET response == Post(h, ITEMS_PATH, converter, r)
  IN  IF response.raised # "none"
        THEN Propagated(h, <<response.request>>, response.raised)
      ELSE Returned(h, <<response.request>>, response.value, 0)

\* InsertItem: POST to '/base/feeds/items'; re-parse when no converter was
\* given and the response is an atom.Entry.
InsertItem(h, converter, r) ==
  LET response == Post(h, ITEMS_PATH, converter, r)
  IN  IF response.raised # "none"
        THEN Propagated(h, <<response.request>>, response.raised)
      ELSE IF converter = NoConverter /\ IsAtomEntry(response.value)
        THEN Returned(h, <<response.request>>,
                      GBaseItemFromString(ToString(response.value)), 1)
      ELSE Returned(h, <<response.request>>, response.value, 0)

\* The characters of 'http://www.google.com/': str.lstrip takes its argument
\* as a set of characters.
StripChars == {HOST_PREFIX[i] : i \in DOMAIN HOST_PREFIX}

\* str.lstrip(chars): drop leading characters while they are in chars.
RECURSIVE lstrip(_, _)
lstrip(s, chars) ==
  IF s = <<>> THEN <<>>
  ELSE IF Head(s) \in chars THEN lstrip(Tail(s), chars)
  ELSE s

\* '/%s' % (item_id.lstrip('http://www.google.com/'))
DeletePath(item_id) == <<"/">> \o lstrip(item_id, StripChars)

\* DeleteItem sending its request without the API key header.
DeleteItem_dropsKey(h, item_id, r) ==
  LET bare   == DictOf([x \in (DOMAIN h.items) \ {API_KEY_HEADER}
                          |-> h.items[x]])
      result == Delete(bare, DeletePath(item_id), r)
  IN  IF result.raised # "none"
        THEN Propagated(h, <<result.request>>, result.raised)
      ELSE Returned(h, <<result.request>>, result.value, 0)

\* DeleteItem: DELETE at the path derived from the id.
DeleteItem(h, item_id, r) ==
  LET result == Delete(h, DeletePath(item_id), r)
  IN  IF result.raised # "none"
        THEN Propagated(h, <<result.request>>, result.raised)
      ELSE Returned(h, <<result.request>>, result.value, 0)

\* UpdateItem deriving its URI the way DeleteItem does.
UpdatePath_stripped(item_id) == DeletePath(item_id)

\* The URI UpdateItem hands to Put: item_id.
UpdatePath(item_id) == item_id

\* UpdateItem wrapping a transport failure in this module's RequestError.
UpdateItem_translates(h, item_id, converter, r) ==
  LET response == Put(h, UpdatePath(item_id), converter, r)
  IN  IF response.raised # "none"
        THEN Propagated(h, <<response.request>>,
                        "gdata.base.service.RequestError")
      ELSE IF converter = NoConverter /\ IsAtomEntry(response.value)
        THEN Returned(h, <<response.request>>,
                      GBaseItemFromString(ToString(response.value)), 1)
      ELSE Returned(h, <<response.request>>, response.value, 0)

\* UpdateItem fetching the item again instead of re-parsing the response.
UpdateItem_refetches(h, item_id, converter, r) ==
  LET response == Put(h, UpdatePath(item_id), converter, r)
      again    == Get(h, UpdatePath(item_id), "GBaseItemFromString", r)
  IN  IF response.raised # "none"
        THEN Propagated(h, <<response.request>>, response.raised)
      ELSE IF converter = NoConverter /\ IsAtomEntry(response.value)
        THEN Returned(h, <<response.request, again.request>>,
                      again.value, 0)
      ELSE Returned(h, <<response.request>>, response.value, 0)

\* UpdateItem: PUT; same re-parse rule as InsertItem.
UpdateItem(h, item_id, converter, r) ==
  LET response == Put(h, UpdatePath(item_id), converter, r)
  IN  IF response.raised # "none"
        THEN Propagated(h, <<response.request>>, response.raised)
      ELSE IF converter = NoConverter /\ IsAtomEntry(response.value)
        THEN Returned(h, <<response.request>>,
                      GBaseItemFromString(ToString(response.value)), 1)
      ELSE Returned(h, <<response.request>>, response.value, 0)

\* ------------------------------------------------------------- BaseQuery
QueryKeys == {"bq", "max-results"}

ParamValues == 1..NumVals

\* Parameter dicts a BaseQuery may be constructed with.
QueryDicts == AllDicts(QueryKeys, ParamValues)

\* self[key]: KeyError when the key is absent.
GetItemOf(q, key) ==
  IF key \in DOMAIN q THEN [raised |-> "none", value |-> q[key]]
  ELSE [raised |-> "KeyError", value |-> None]

\* _GetBaseQuery: return self['bq'].
GetBaseQuery(q) == GetItemOf(q, "bq")

\* _SetBaseQuery building a fresh dict that holds bq alone.
SetBaseQuery_clobbers(q, base_query) == DictSet(EmptyItems, "bq", base_query)

\* _SetBaseQuery: self['bq'] = base_query.
SetBaseQuery(q, base_query) == DictSet(q, "bq", base_query)

\* ------------------------------------------------------------- state
VARIABLES
  additional_headers,  \* the handle's header mapping
  ctor_no_args,        \* the handle was built with no headers and no API key
  op,                  \* the most recent operation on the handle
  args,                \* its arguments: id (uri or item id), converter, key
  reply,               \* what the transport did during it
  requests,            \* the client calls it made
  outcome,             \* how it ended: raised, value, parses
  hdr_before,          \* the header mapping when it started
  last_key,            \* the most recent value given to the API key setter
  key_fresh,           \* the mapping was not assigned by the caller since
  key_read,            \* what the most recent operation read as the API key
  query,               \* the BaseQuery dict
  qop,                 \* the most recent operation on the query
  query_before,        \* the dict when that operation started
  bq_written,          \* the most recent store under 'bq': its route and value
  bq_read              \* result of the most recent read of bq

svars == <<additional_headers, ctor_no_args, op, args, reply, requests,
           outcome, hdr_before, last_key, key_fresh, key_read>>

qvars == <<query, qop, query_before, bq_written, bq_read>>

vars == <<svars, qvars>>

NoArgs == [id |-> <<>>, converter |-> NoConverter, key |-> None]

NoReply == [fail |-> "none", shape |-> "other"]

NoOutcome == [raised |-> "none", value |-> NoValue, parses |-> 0]

NoRead == [raised |-> "none", value |-> None]

\* The handle right after GBaseService(api_key=k, additional_headers=ah).
InitService(ah, k) ==
  /\ additional_headers = GBaseServiceInit(ah, k)
  /\ ctor_no_args = (~ah.dict /\ k = None)
  /\ op = "__init__"
  /\ args = [NoArgs EXCEPT !.key = k]
  /\ reply = NoReply
  /\ requests = <<>>
  /\ outcome = NoOutcome
  /\ hdr_before = ah
  /\ last_key = k
  /\ key_fresh = TRUE
  /\ key_read = NoRead

\* The query right after BaseQuery(params=q).
InitQuery(q) ==
  /\ query = q
  /\ qop = "__init__"
  /\ query_before = q
  /\ bq_written = IF "bq" \in DOMAIN q
                    THEN [via |-> "__init__", value |-> q["bq"]]
                    ELSE [via |-> "none", value |-> None]
  /\ bq_read = NoRead

\* ------------------------------------------------------------- actions
\* api_key property, set side.
SetAPIKeyOp ==
  \E k \in KeyValues :
    /\ additional_headers' = SetAPIKey(additional_headers, k)
    /\ op' = "SetAPIKey"
    /\ args' = [NoArgs EXCEPT !.key = k]
    /\ reply' = NoReply
    /\ requests' = <<>>
    /\ outcome' = NoOutcome
    /\ hdr_before' = additional_headers
    /\ last_key' = k
    /\ key_fresh' = TRUE
    /\ key_read' = NoRead
    /\ UNCHANGED ctor_no_args
    /\ UNCHANGED qvars

\* api_key property, get side.
GetAPIKeyOp ==
  /\ key_read' = GetAPIKey(additional_headers)
  /\ op' = "GetAPIKey"
  /\ args' = NoArgs
  /\ reply' = NoReply
  /\ requests' = <<>>
  /\ outcome' = NoOutcome
  /\ hdr_before' = additional_headers
  /\ UNCHANGED <<additional_headers, ctor_no_args, last_key, key_fresh>>
  /\ UNCHANGED qvars

\* The caller assigns the public additional_headers attribute directly.
AssignHeaders ==
  \E h \in CallerHeaders :
    /\ additional_headers' = h
    /\ op' = "assign_headers"
    /\ args' = NoArgs
    /\ reply' = NoReply
    /\ requests' = <<>>
    /\ outcome' = NoOutcome
    /\ hdr_before' = additional_headers
    /\ key_fresh' = FALSE
    /\ key_read' = NoRead
    /\ UNCHANGED <<ctor_no_args, last_key>>
    /\ UNCHANGED qvars

\* A request operation named name, called with a, during which the
\* transport did r, and whose effect is res.
Request(name, a, r, res) ==
  /\ op' = name
  /\ args' = a
  /\ reply' = r
  /\ requests' = res.requests
  /\ outcome' = [raised |-> res.raised, value |-> res.value,
                 parses |-> res.parses]
  /\ hdr_before' = additional_headers
  /\ additional_headers' = res.headers
  /\ key_read' = NoRead
  /\ UNCHANGED <<ctor_no_args, last_key, key_fresh>>
  /\ UNCHANGED qvars

QueryOp ==
  \E uri \in QueryUris, c \in CallerConverters \cup {NoConverter},
     r \in Replies :
    Request("Query", [NoArgs EXCEPT !.id = uri, !.converter = c], r,
            Query(additional_headers, uri, c, r))

FixedGetOp ==
  \E name \in FixedOps, uri \in QueryUris, r \in Replies :
    Request(name, [NoArgs EXCEPT !.id = uri], r,
            FixedGet(name, additional_headers, uri, r))

InsertItemOp ==
  \E c \in CallerConverters \cup {NoConverter}, r \in Replies :
    Request("InsertItem", [NoArgs EXCEPT !.converter = c], r,
            InsertItem(additional_headers, c, r))

\* The body of a DELETE response is not looked at.
DeleteItemOp ==
  \E id \in ItemIds, r \in {x \in Replies : x.shape = "other"} :
    Request("DeleteItem", [NoArgs EXCEPT !.id = id], r,
            DeleteItem(additional_headers, id, r))

UpdateItemOp ==
  \E id \in ItemIds, c \in CallerConverters \cup {NoConverter},
     r \in Replies :
    Request("UpdateItem", [NoArgs EXCEPT !.id = id, !.converter = c], r,
            UpdateItem(additional_headers, id, c, r))

\* query.bq = v
SetBq ==
  \E v \in ParamValues :
    /\ query' = SetBaseQuery(query, v)
    /\ qop' = "SetBq"
    /\ query_before' = query
    /\ bq_written' = [via |-> "bq", value |-> v]
    /\ UNCHANGED bq_read
    /\ UNCHANGED svars

\* query.bq
GetBq ==
  /\ bq_read' = GetBaseQuery(query)
  /\ qop' = "GetBq"
  /\ query_before' = query
  /\ UNCHANGED <<query, bq_written>>
  /\ UNCHANGED svars

\* query[k] = v
SetItem ==
  \E k \in QueryKeys, v \in ParamValues :
    /\ query' = DictSet(query, k, v)
    /\ qop' = "SetItem"
    /\ query_before' = query
    /\ bq_written' = IF k = "bq" THEN [via |-> "key", value |-> v]
                      ELSE bq_written
    /\ UNCHANGED bq_read
    /\ UNCHANGED svars

\* ------------------------------------------------------------- specifications
\* The service handle under its own operations.
Init ==
  /\ \E ah \in CtorHeaders, k \in KeyValues : InitService(ah, k)
  /\ InitQuery(EmptyItems)

Next ==
  \/ SetAPIKeyOp
  \/ GetAPIKeyOp
  \/ QueryOp
  \/ FixedGetOp
  \/ InsertItemOp
  \/ DeleteItemOp
  \/ UpdateItemOp

Spec == Init /\ [][Next]_vars

\* The API key accessor on a handle whose header mapping the caller may
\* also assign.
NextKey ==
  \/ SetAPIKeyOp
  \/ GetAPIKeyOp
  \/ AssignHeaders

SpecKey == Init /\ [][NextKey]_vars

\* The query parameter object.
InitQ ==
  /\ InitService(NoneHeaders, None)
  /\ \E q \in QueryDicts : InitQuery(q)

NextQ ==
  \/ SetBq
  \/ GetBq
  \/ SetItem

SpecQuery == InitQ /\ [][NextQ]_vars

\* ------------------------------------------------------------- properties
RequestOps ==
  {"Query", "InsertItem", "DeleteItem", "UpdateItem"} \cup FixedOps

HasHostPrefix(id) ==
  /\ Len(id) >= Len(HOST_PREFIX)
  /\ SubSeq(id, 1, Len(HOST_PREFIX)) = HOST_PREFIX

AfterHostPrefix(id) == SubSeq(id, Len(HOST_PREFIX) + 1, Len(id))

HasKey(h) == h.dict /\ API_KEY_HEADER \in DOMAIN h.items

\* C1: for an item id that begins with 'http://www.google.com/', DeleteItem
\* sends its DELETE to '/' followed by exactly the rest of the id after that
\* prefix, whatever the rest starts with.
C1_DeleteStripsExactlyThePrefix ==
  (op = "DeleteItem" /\ HasHostPrefix(args.id)) =>
    /\ Len(requests) = 1
    /\ requests[1].uri = <<"/">> \o AfterHostPrefix(args.id)

\* C2: a Query-family operation called with a converter (the caller's, or
\* the fixed one of a QueryXFeed / GetX wrapper) returns exactly the
\* converter's output on the response and never runs the item parser on it.
C2_ConverterOutputReturned ==
  LET conv == IF op \in FixedOps THEN requests[1].converter
              ELSE args.converter
  IN  (/\ op \in RequestOps \ {"DeleteItem"}
       /\ (op \in FixedOps \/ args.converter # NoConverter)
       /\ outcome.raised = "none") =>
        /\ conv # NoConverter
        /\ requests[1].converter = conv
        /\ outcome.value = Convert(conv, reply.shape)
        /\ outcome.parses = 0

\* Query with a converter whose output is a generic entry hands that entry
\* back.
C2_Witness ==
  /\ op = "Query"
  /\ args.converter = "GDataEntryFromString"
  /\ outcome.raised = "none"
  /\ outcome.value = Obj("GDataEntry", "entry")
  /\ outcome.parses = 0

C4_UpdateUsesDeletePath ==
  op = "UpdateItem" =>
    /\ Len(requests) = 1
    /\ requests[1].method = "PUT"
    /\ requests[1].uri = DeletePath(args.id)

\* C4, amended: UpdateItem sends its PUT to the item id exactly as the
\* caller gave it, host prefix included.
C4_UpdateUsesItemId ==
  op = "UpdateItem" =>
    /\ Len(requests) = 1
    /\ requests[1].method = "PUT"
    /\ requests[1].uri = args.id

\* UpdateItem on a prefixed id: the PUT goes to the full id, which is not
\* the DELETE path of that id.
C4_Witness ==
  /\ op = "UpdateItem"
  /\ HasHostPrefix(args.id)
  /\ Len(args.id) > Len(HOST_PREFIX)
  /\ requests[1].uri = args.id
  /\ requests[1].uri # DeletePath(args.id)

\* C5: the setter stores its value in additional_headers under
\* 'X-Google-Key'; a read after a set returns the most recent value set
\* (None included); a read of a mapping without the entry returns None.
C5_ApiKeySetThenGet ==
  /\ op = "SetAPIKey" =>
       /\ HasKey(additional_headers)
       /\ additional_headers.items[API_KEY_HEADER] = args.key
  /\ (op = "GetAPIKey" /\ key_fresh) =>
       key_read = [raised |-> "none", value |-> last_key]
  /\ (/\ op = "GetAPIKey"
      /\ additional_headers.dict
      /\ API_KEY_HEADER \notin DOMAIN additional_headers.items) =>
       key_read = [raised |-> "none", value |-> None]

\* A read that follows the set of a non-null key and returns it.
C5_Witness ==
  /\ op = "GetAPIKey"
  /\ key_fresh
  /\ last_key # None
  /\ additional_headers.items[API_KEY_HEADER] = last_key
  /\ key_read = [raised |-> "none", value |-> last_key]

\* C6: every request an operation issues carries 'X-Google-Key' with the
\* value most recently set, and no request operation changes the header
\* mapping.
C6_KeyOnEveryRequest ==
  /\ \A i \in DOMAIN requests :
       /\ HasKey(requests[i].headers)
       /\ requests[i].headers.items[API_KEY_HEADER] = last_key
  /\ op \in RequestOps => additional_headers = hdr_before

\* A DELETE issued with a non-null key set.
C6_Witness ==
  /\ op = "DeleteItem"
  /\ last_key # None
  /\ Len(requests) = 1
  /\ requests[1].headers.items[API_KEY_HEADER] = last_key

\* C7: a failure raised by the transport or its parser ends the operation
\* with that same failure: it is not one of this module's error kinds, no
\* value is returned, nothing is re-parsed, the request is not repeated and
\* the header mapping is as before the call.
C7_FailuresPropagateUntouched ==
  (op \in RequestOps /\ reply.fail # "none") =>
    /\ outcome.raised = reply.fail
    /\ outcome.raised \notin OwnErrors
    /\ outcome.value = NoValue
    /\ outcome.parses = 0
    /\ Len(requests) = 1
    /\ additional_headers = hdr_before

\* UpdateItem without a converter during which the parser failed.
C7_Witness ==
  /\ op = "UpdateItem"
  /\ args.converter = NoConverter
  /\ reply.fail = "ExpatError"
  /\ outcome.raised = "ExpatError"

\* The HTTP method each operation is meant to use.
MethodOf(name) ==
  IF name = "InsertItem" THEN "POST"
  ELSE IF name = "UpdateItem" THEN "PUT"
  ELSE IF name = "DeleteItem" THEN "DELETE"
  ELSE "GET"

\* C9: every request operation makes exactly one client call, of the method
\* designated for it; the fallback re-parse makes no second one.
C9_OneRequestPerOperation ==
  op \in RequestOps =>
    /\ Len(requests) = 1
    /\ requests[1].method = MethodOf(op)

\* UpdateItem that re-parsed an entry response and made one PUT.
C9_Witness ==
  /\ op = "UpdateItem"
  /\ outcome.parses = 1
  /\ Len(requests) = 1
  /\ requests[1].method = "PUT"

\* C10: additional_headers is always a dict holding an 'X-Google-Key' entry;
\* right after construction its value is the constructor's api_key (None
\* when none was given); reading the key never raises.
C10_HeaderEntryAlwaysPresent ==
  /\ HasKey(additional_headers)
  /\ op = "__init__" =>
       /\ additional_headers.items[API_KEY_HEADER] = args.key
       /\ ctor_no_args => additional_headers.items[API_KEY_HEADER] = None
  /\ op = "GetAPIKey" => key_read.raised = "none"

\* A handle built with no headers and no key, read before any set.
C10_Witness ==
  /\ op = "GetAPIKey"
  /\ ctor_no_args
  /\ last_key = None
  /\ additional_headers = DictOf(DictSet(EmptyItems, API_KEY_HEADER, None))
  /\ key_read = [raised |-> "none", value |-> None]

\* C8: reading bq returns the value stored under 'bq', whichever way it was
\* stored (the accessor, plain key assignment, the constructor), and
\* assigning bq changes no other key.
C8_BqAccessor ==
  /\ (qop = "GetBq" /\ "bq" \in DOMAIN query) =>
       bq_read = [raised |-> "none", value |-> query["bq"]]
  /\ (qop = "GetBq" /\ bq_written.via # "none") =>
       bq_read = [raised |-> "none", value |-> bq_written.value]
  /\ qop = "SetBq" =>
       /\ "bq" \in DOMAIN query
       /\ query["bq"] = bq_written.value
       /\ \A k \in (DOMAIN query \cup DOMAIN query_before) \ {"bq"} :
            /\ k \in DOMAIN query
            /\ k \in DOMAIN query_before
            /\ query[k] = query_before[k]

\* A read of bq, set through the accessor, on a query that holds another
\* parameter too.
C8_Witness ==
  /\ qop = "GetBq"
  /\ bq_written.via = "bq"
  /\ "max-results" \in DOMAIN query
  /\ bq_read = [raised |-> "none", value |-> bq_written.value]

====
